---------------------------- MODULE Spec2Model ----------------------------
(***************************************************************************)
(* A model of the tabu-search core of the vrp solver: the fitness          *)
(* evaluator, the truck partitioner, the neighbourhood generator, the tabu *)
(* list and candidate selector, the diversification operators, the         *)
(* destroy-and-recreate repair and the search driver.                      *)
(*                                                                         *)
(* Conventions.  A Vec is a sequence; the code's 0-based position p is the *)
(* sequence's element p + 1 (operator At).  Swap pairs, the tabu list and  *)
(* parent_swap hold 0-based positions, as in the code.  f64 distances and  *)
(* fitnesses are integers (the matrices used are integer valued).          *)
(***************************************************************************)
EXTENDS Integers, Sequences, FiniteSets, TLC

VARIABLES
    problem_instance,       \* ProblemInstance (read-only during a run)
    current_solution,       \* Route
    best_so_far,            \* Route
    best_so_far_iteration,
    saved_solutions,        \* Vec<Route>
    parent_swap,            \* (usize, usize)
    stagnation,
    max_stagnation,
    temperature_factor,
    ended_early_value,
    has_ended,
    ended_early_iteration,
    len_tabu_list,
    tabu_list,              \* VecDeque<(usize, usize)>, front first
    best_so_far_updates,    \* Vec<(usize, f64)>
    iteration,              \* the loop counter of run (0 before the loop)
    called,                 \* name of the function a harness applied last
    returned                \* what that function returned

vars == <<problem_instance, current_solution, best_so_far, best_so_far_iteration,
          saved_solutions, parent_swap, stagnation, max_stagnation,
          temperature_factor, ended_early_value, has_ended,
          ended_early_iteration, len_tabu_list, tabu_list,
          best_so_far_updates, iteration, called, returned>>

search_vars == <<current_solution, best_so_far, best_so_far_iteration,
                 saved_solutions, parent_swap, stagnation, max_stagnation,
                 temperature_factor, ended_early_value, has_ended,
                 ended_early_iteration, len_tabu_list, tabu_list,
                 best_so_far_updates, iteration>>

(***************************************************************************)
(* Bounds of the model and the program's constants.                        *)
(***************************************************************************)
MaxNodes == 4           \* N: length of the longest route explored
MaxTrucks == 3          \* K: largest fleet explored
MaxDemand == 2          \* largest customer demand explored
MaxCapacity == 3        \* largest vehicle capacity explored
MaxTenure == 2          \* largest tabu tenure explored
PENALTY_VALUE == 20
aspiration_threshold == 20

(***************************************************************************)
(* Generic helpers for Vec and slices.                                     *)
(***************************************************************************)
Min(a, b) == IF a < b THEN a ELSE b
Max(a, b) == IF a > b THEN a ELSE b

At(v, p) == v[p + 1]

\* slice::swap(a, b) on 0-based positions
SwapAt(v, a, b) ==
    [q \in 1..Len(v) |->
        IF q = a + 1 THEN v[b + 1] ELSE IF q = b + 1 THEN v[a + 1] ELSE v[q]]

\* insertion of x into a sequence already sorted in descending order
RECURSIVE InsertDesc(_, _)
InsertDesc(s, x) ==
    IF s = <<>> THEN <<x>>
    ELSE IF Head(s) >= x THEN <<Head(s)>> \o InsertDesc(Tail(s), x)
    ELSE <<x>> \o s

\* sort_unstable_by(|a, b| b.cmp(a)) on integers
RECURSIVE SortDesc(_)
SortDesc(s) ==
    IF s = <<>> THEN <<>> ELSE InsertDesc(SortDesc(SubSeq(s, 1, Len(s) - 1)), s[Len(s)])

Permutations_of(S) ==
    {f \in [1..Cardinality(S) -> S] : \A a, b \in 1..Cardinality(S) : a # b => f[a] # f[b]}

(***************************************************************************)
(* domain/types.rs                                                         *)
(***************************************************************************)
Location(i, d, w) == [index |-> i, demand |-> d, is_warehouse |-> w]

Route(r, f) == [route |-> r, fitness |-> f]

\* Ord for Location: cmp(self, other) = other.demand.cmp(&self.demand);
\* TRUE when self compares Greater than or Equal to other.
Location_ge(self, other) == other.demand >= self.demand

(***************************************************************************)
(* evaluation/fitness.rs and evaluation/penalty.rs                         *)
(***************************************************************************)
dist_between(from_loc, to_loc, dm) == dm[from_loc][to_loc]

\* the accumulation loop of find_distance, from 0-based position i on
RECURSIVE total_dist(_, _, _)
total_dist(r, i, dm) ==
    IF i >= Len(r) - 1 THEN 0
    ELSE dist_between(At(r, i).index, At(r, i + 1).index, dm) + total_dist(r, i + 1, dm)

find_distance_no_return_leg(solution, dm) ==
    LET r == solution.route IN
    IF r = <<>> THEN 0
    ELSE dist_between(0, At(r, 0).index, dm) + total_dist(r, 0, dm)

find_distance(solution, dm) ==
    LET r == solution.route IN
    IF r = <<>> THEN 0
    ELSE LET warehouse_to_first_loc == dist_between(0, At(r, 0).index, dm)
             last_loc_to_warehouse == dist_between(At(r, Len(r) - 1).index, 0, dm)
         IN warehouse_to_first_loc + total_dist(r, 0, dm) + last_loc_to_warehouse

\* the loop of find_sorted_capacities over r from 0-based position i on,
\* with the loads pushed so far and the running sum
RECURSIVE segment_loads(_, _, _, _, _)
segment_loads(r, i, num_of_trucks, trucks_capacities, curr_sum) ==
    IF i >= Len(r)
    THEN IF curr_sum > 0 THEN Append(trucks_capacities, curr_sum) ELSE trucks_capacities
    ELSE LET loc == At(r, i) IN
         IF loc.index >= num_of_trucks - 1
         THEN segment_loads(r, i + 1, num_of_trucks, trucks_capacities, curr_sum + loc.demand)
         ELSE IF curr_sum = 0
         THEN segment_loads(r, i + 1, num_of_trucks, trucks_capacities, curr_sum)
         ELSE segment_loads(r, i + 1, num_of_trucks, Append(trucks_capacities, curr_sum), 0)

find_sorted_capacities(solution, num_of_trucks) ==
    SortDesc(segment_loads(solution.route, 0, num_of_trucks, <<>>, 0))

\* the loop of penalty: total_overweight over ranks ind .. min_len - 1
RECURSIVE total_overweight(_, _, _, _)
total_overweight(trucks_sorted_load, vehicle_cap, ind, min_len) ==
    IF ind >= min_len THEN 0
    ELSE Max(0, At(trucks_sorted_load, ind) - At(vehicle_cap, ind))
         + total_overweight(trucks_sorted_load, vehicle_cap, ind + 1, min_len)

\* the same loop without the clamp max(0, diff)
RECURSIVE total_overweight_no_clamp(_, _, _, _)
total_overweight_no_clamp(trucks_sorted_load, vehicle_cap, ind, min_len) ==
    IF ind >= min_len THEN 0
    ELSE (At(trucks_sorted_load, ind) - At(vehicle_cap, ind))
         + total_overweight_no_clamp(trucks_sorted_load, vehicle_cap, ind + 1, min_len)

penalty_no_clamp(solution, penalty_value, num_of_trucks, vehicle_cap) ==
    LET trucks_sorted_load == find_sorted_capacities(solution, num_of_trucks)
        min_len == Min(Len(trucks_sorted_load), Len(vehicle_cap))
    IN Max(0, total_overweight_no_clamp(trucks_sorted_load, vehicle_cap, 0, min_len))
           * penalty_value

penalty(solution, penalty_value, num_of_trucks, vehicle_cap) ==
    LET trucks_sorted_load == find_sorted_capacities(solution, num_of_trucks)
        min_len == Min(Len(trucks_sorted_load), Len(vehicle_cap))
    IN total_overweight(trucks_sorted_load, vehicle_cap, 0, min_len) * penalty_value

find_fitness(solution, penalty_value, num_of_trucks, vehicle_cap, dm) ==
    find_distance(solution, dm)
        + penalty(solution, penalty_value, num_of_trucks, vehicle_cap)

\* find_fitness with the instance's own parameters, as every caller passes them
fitness_of(solution, pi) ==
    find_fitness(solution, pi.penalty_value, pi.num_of_trucks,
                 pi.vehicle_capacities, pi.distance_matrix)

(***************************************************************************)
(* domain/solution.rs                                                      *)
(***************************************************************************)
Truck(l, c, e, w, r) ==
    [load |-> l, capacity |-> c, excess |-> e, ending_warehouse |-> w, route |-> r]

\* Option<usize>
None == <<>>
Some(x) == <<x>>

EmptyTruck == Truck(0, 0, 0, None, <<>>)

\* the loop of partition_trucks_sorted_by_load from 0-based position i on
RECURSIVE partition_loop(_, _, _, _, _)
partition_loop(r, i, num_of_trucks, trucks, temp_truck) ==
    IF i >= Len(r)
    THEN Append(trucks, [temp_truck EXCEPT !.ending_warehouse = Some(Len(r))])
    ELSE LET loc == At(r, i) IN
         IF loc.index >= num_of_trucks - 1
         THEN partition_loop(r, i + 1, num_of_trucks, trucks,
                  [temp_truck EXCEPT !.load = @ + loc.demand, !.route = Append(@, loc)])
         ELSE partition_loop(r, i + 1, num_of_trucks,
                  Append(trucks, [temp_truck EXCEPT !.ending_warehouse = Some(loc.index)]),
                  EmptyTruck)

\* the place of t in a sequence stably sorted by descending key field f:
\* after every element whose key is >= t's
RECURSIVE insert_by_key_desc(_, _, _)
insert_by_key_desc(s, t, f) ==
    IF s = <<>> THEN <<t>>
    ELSE IF Head(s)[f] >= t[f] THEN <<Head(s)>> \o insert_by_key_desc(Tail(s), t, f)
    ELSE <<t>> \o s

\* sort_by_key(|t| Reverse(t.f)): a stable sort, descending in field f
RECURSIVE sort_by_key_reverse(_, _)
sort_by_key_reverse(s, f) ==
    IF s = <<>> THEN <<>>
    ELSE insert_by_key_desc(sort_by_key_reverse(SubSeq(s, 1, Len(s) - 1), f), s[Len(s)], f)

partition_trucks_sorted_by_load(solution, num_of_trucks) ==
    sort_by_key_reverse(
        partition_loop(solution.route, 0, num_of_trucks, <<>>, EmptyTruck), "load")

trucks_by_excess(solution, pi) ==
    LET trucks == partition_trucks_sorted_by_load(solution, pi.num_of_trucks)
        with_cap == [ind \in 1..Len(trucks) |->
                        IF ind <= Len(pi.vehicle_capacities)
                        THEN [trucks[ind] EXCEPT
                                 !.capacity = pi.vehicle_capacities[ind],
                                 !.excess = trucks[ind].load - pi.vehicle_capacities[ind]]
                        ELSE trucks[ind]]
    IN sort_by_key_reverse(with_cap, "excess")

(***************************************************************************)
(* solver/tabu_search/neighborhood.rs                                      *)
(***************************************************************************)
\* (0..n).flat_map(|i| ((i + 1)..n).map(move |j| (i, j))): pairs in
\* lexicographic order, built from 0-based (i, j) on
RECURSIVE pairs_from_short(_, _, _)
pairs_from_short(i, j, n) ==
    IF i >= n - 1 THEN <<>>
    ELSE IF j >= n - 1 THEN pairs_from_short(i + 1, i + 2, n)
    ELSE <<(<<i, j>>)>> \o pairs_from_short(i, j + 1, n)

RECURSIVE pairs_from(_, _, _)
pairs_from(i, j, n) ==
    IF i >= n THEN <<>>
    ELSE IF j >= n THEN pairs_from(i + 1, i + 2, n)
    ELSE <<(<<i, j>>)>> \o pairs_from(i, j + 1, n)

\* a candidate scored by its distance alone, without the penalty
evaluate_pair_unpenalised(current_solution_, pi, pair) ==
    <<find_distance(Route(SwapAt(current_solution_.route, pair[1], pair[2]), 0),
                    pi.distance_matrix), pair>>

\* a candidate (fitness, (i, j)) is the pair <<fitness, <<i, j>>>>
evaluate_pair(current_solution_, pi, pair) ==
    LET new_solution == Route(SwapAt(current_solution_.route, pair[1], pair[2]), 0)
    IN <<fitness_of(new_solution, pi), pair>>

\* an unstable variant: c goes before the elements of equal fitness
RECURSIVE insert_by_fitness_unstable(_, _)
insert_by_fitness_unstable(s, c) ==
    IF s = <<>> THEN <<c>>
    ELSE IF Head(s)[1] < c[1] THEN <<Head(s)>> \o insert_by_fitness_unstable(Tail(s), c)
    ELSE <<c>> \o s

\* the place of c in a sequence stably sorted by ascending fitness
RECURSIVE insert_by_fitness(_, _)
insert_by_fitness(s, c) ==
    IF s = <<>> THEN <<c>>
    ELSE IF Head(s)[1] <= c[1] THEN <<Head(s)>> \o insert_by_fitness(Tail(s), c)
    ELSE <<c>> \o s

\* par_sort_by(|a, b| a.0.total_cmp(&b.0)): a stable sort by fitness
RECURSIVE par_sort_by_fitness(_)
par_sort_by_fitness(s) ==
    IF s = <<>> THEN <<>>
    ELSE insert_by_fitness(par_sort_by_fitness(SubSeq(s, 1, Len(s) - 1)), s[Len(s)])

find_neighbours(current_solution_, pi) ==
    LET n == Len(current_solution_.route)
        pairs == pairs_from(0, 1, n)
        swap_candidates_ind ==
            [k \in 1..Len(pairs) |-> evaluate_pair(current_solution_, pi, pairs[k])]
    IN par_sort_by_fitness(swap_candidates_ind)

(***************************************************************************)
(* utils.rs                                                                *)
(***************************************************************************)
swaps_overlap(a, b) == a[1] = b[1] \/ a[1] = b[2] \/ a[2] = b[1] \/ a[2] = b[2]

(***************************************************************************)
(* solver/tabu_search/tabu.rs                                              *)
(***************************************************************************)
\* the selector's normalisation left out
normalise_identity(pair) == pair

\* if i < j { (i, j) } else { (j, i) }
normalise(pair) == IF pair[1] < pair[2] THEN pair ELSE <<pair[2], pair[1]>>

\* VecDeque::contains
contains(list, x) == \E k \in 1..Len(list) : list[k] = x

\* the membership test the selector applies to a move
is_tabu(list, move) == contains(list, normalise(move))

\* Iterator::find: the first element of s from k on that is neither tabu nor
\* overlapping parent_swap, or fallback
\* the scan with the overlap test left out
RECURSIVE find_admissible_ignores_parent(_, _, _, _, _)
find_admissible_ignores_parent(s, k, list, parent_swap_, fallback) ==
    IF k > Len(s) THEN fallback
    ELSE IF ~is_tabu(list, s[k][2]) THEN s[k]
    ELSE find_admissible_ignores_parent(s, k + 1, list, parent_swap_, fallback)

RECURSIVE find_admissible(_, _, _, _, _)
find_admissible(s, k, list, parent_swap_, fallback) ==
    IF k > Len(s) THEN fallback
    ELSE IF ~is_tabu(list, s[k][2]) /\ ~swaps_overlap(s[k][2], parent_swap_) THEN s[k]
    ELSE find_admissible(s, k + 1, list, parent_swap_, fallback)

\* the selector without the aspiration branch: a tabu best neighbour is always
\* replaced by the first admissible one
choose_best_candidate_no_aspiration(swap_candidates_ind, list, best, aspiration, parent_swap_) ==
    LET chosen == IF swap_candidates_ind # <<>> THEN swap_candidates_ind[1]
                  ELSE <<0, <<0, 0>>>>
    IN IF contains(list, IF chosen[2][1] < chosen[2][2] THEN chosen[2]
                          ELSE <<chosen[2][2], chosen[2][1]>>)
       THEN find_admissible(swap_candidates_ind, 1, list, parent_swap_, chosen)
       ELSE chosen

\* the selector without the scan: the best neighbour is taken as it is
choose_first_candidate(swap_candidates_ind, list, best, aspiration, parent_swap_) ==
    IF swap_candidates_ind # <<>> THEN swap_candidates_ind[1] ELSE <<0, <<0, 0>>>>

choose_best_candidate(swap_candidates_ind, list, best, aspiration, parent_swap_) ==
    LET chosen == IF swap_candidates_ind # <<>> THEN swap_candidates_ind[1]
                  ELSE <<0, <<0, 0>>>>
    IN IF is_tabu(list, chosen[2])
       THEN IF /\ best.fitness - aspiration <= chosen[1]
               /\ chosen[1] <= best.fitness + aspiration
               /\ ~swaps_overlap(chosen[2], parent_swap_)
            THEN chosen
            ELSE find_admissible(swap_candidates_ind, 1, list, parent_swap_, chosen)
       ELSE chosen

\* while tabu_list.len() > len_tabu_list { pop_back }
trim(list, len) == IF Len(list) > len THEN SubSeq(list, 1, len) ELSE list

insert_and_adjust_tabu_list(list, swap_move, len) ==
    LET pair == IF swap_move[1] < swap_move[2] THEN swap_move
                ELSE <<swap_move[2], swap_move[1]>>
    IN trim(<<pair>> \o list, len)

(***************************************************************************)
(* solver/tabu_search/repair.rs (search.rs holds the same code as          *)
(* anls_destroy_and_recreate, which is the copy run calls).                *)
(*                                                                         *)
(* The BinaryHeap is the set of the Locations it holds.  Which of several  *)
(* equal elements peek/pop returns, and the order in which drain yields    *)
(* the elements, are left open by the library: both follow the parameter   *)
(* heap_order, a sequence of node indices, earlier first.  One order is    *)
(* enough for both: the loop's test reads only the demand of the top, so   *)
(* the rank among equal elements that are never popped has no effect but   *)
(* on the order of the drain.                                              *)
(***************************************************************************)
rank_in(order, index) == CHOOSE k \in 1..Len(order) : order[k] = index

\* BinaryHeap::peek: a greatest element by Ord for Location
peek(heap, pop_order) ==
    CHOOSE x \in heap :
        \A y \in heap :
            /\ Location_ge(x, y)
            /\ Location_ge(y, x) => rank_in(pop_order, x.index) <= rank_in(pop_order, y.index)

\* BinaryHeap::drain: every element, in the order drain_order gives
RECURSIVE drain(_, _, _)
drain(heap, drain_order, k) ==
    IF k > Len(drain_order) THEN <<>>
    ELSE LET here == {x \in heap : x.index = drain_order[k]}
         IN (IF here = {} THEN <<>> ELSE <<CHOOSE x \in here : TRUE>>)
            \o drain(heap, drain_order, k + 1)

\* the destroy loop that lowers the excess but leaves the load as it was
RECURSIVE destroy_truck_keeps_load(_, _)
destroy_truck_keeps_load(truck, heap) ==
    IF truck.excess <= 0 THEN [truck |-> truck, heap |-> heap, panicked |-> FALSE]
    ELSE IF truck.route = <<>> THEN [truck |-> truck, heap |-> heap, panicked |-> TRUE]
    ELSE LET destroyed_location == truck.route[Len(truck.route)]
         IN destroy_truck_keeps_load(
                [truck EXCEPT !.route = SubSeq(@, 1, Len(@) - 1),
                              !.excess = @ - destroyed_location.demand],
                heap \cup {destroyed_location})

\* while truck.excess > 0 { pop the last location into the heap }
\* panicked: route.pop() returned None and expect() aborted the program
RECURSIVE destroy_truck(_, _)
destroy_truck(truck, heap) ==
    IF truck.excess <= 0 THEN [truck |-> truck, heap |-> heap, panicked |-> FALSE]
    ELSE IF truck.route = <<>> THEN [truck |-> truck, heap |-> heap, panicked |-> TRUE]
    ELSE LET destroyed_location == truck.route[Len(truck.route)]
         IN destroy_truck(
                [truck EXCEPT !.route = SubSeq(@, 1, Len(@) - 1),
                              !.load = @ - destroyed_location.demand,
                              !.excess = @ - destroyed_location.demand],
                heap \cup {destroyed_location})

\* for truck in &mut trucks { if truck.excess <= 0 { break } ... }, from truck k on
RECURSIVE destroy(_, _, _)
destroy(trucks, k, heap) ==
    IF k > Len(trucks) \/ trucks[k].excess <= 0
    THEN [trucks |-> trucks, heap |-> heap, panicked |-> FALSE]
    ELSE LET d == destroy_truck(trucks[k], heap)
         IN IF d.panicked THEN [trucks |-> trucks, heap |-> heap, panicked |-> TRUE]
            ELSE destroy([trucks EXCEPT ![k] = d.truck], k + 1, d.heap)

\* while truck.excess < 0 && !heap.is_empty() && truck.excess + peek.demand <= 0
\*     { truck.route.push(heap.pop()) }      (excess is not touched by the loop)
RECURSIVE reinsert_truck(_, _, _)
reinsert_truck(truck, heap, pop_order) ==
    IF /\ truck.excess < 0
       /\ heap # {}
       /\ truck.excess + peek(heap, pop_order).demand <= 0
    THEN LET top == peek(heap, pop_order)
         IN reinsert_truck([truck EXCEPT !.route = Append(@, top)],
                           heap \ {top}, pop_order)
    ELSE [truck |-> truck, heap |-> heap]

\* for truck in trucks.iter_mut().rev() { if heap.is_empty() || truck.excess > 0
\*     { break } ... }, from truck k down
RECURSIVE reinsert(_, _, _, _)
reinsert(trucks, k, heap, pop_order) ==
    IF k < 1 \/ heap = {} \/ trucks[k].excess > 0
    THEN [trucks |-> trucks, heap |-> heap]
    ELSE LET d == reinsert_truck(trucks[k], heap, pop_order)
         IN reinsert([trucks EXCEPT ![k] = d.truck], k - 1, d.heap, pop_order)

\* trucks.iter_mut().min_by_key(|t| t.excess): the first truck of least excess
min_by_excess(trucks) ==
    CHOOSE k \in 1..Len(trucks) :
        /\ \A m \in 1..Len(trucks) : trucks[k].excess <= trucks[m].excess
        /\ \A m \in 1..(k - 1) : trucks[m].excess > trucks[k].excess

\* the fallback left out: what is still in the heap is lost
fallback_drops_residue(trucks, heap, drain_order) == trucks

fallback(trucks, heap, drain_order) ==
    IF heap # {} /\ trucks # <<>>
    THEN LET k == min_by_excess(trucks)
         IN [trucks EXCEPT ![k].route = @ \o drain(heap, drain_order, 1)]
    ELSE trucks

\* the loop of recreate_route_from_trucks from truck i (0-based) on
RECURSIVE recreate_loop(_, _, _)
recreate_loop(trucks, i, partition_counter) ==
    IF i >= Len(trucks) THEN <<>>
    ELSE At(trucks, i).route
         \o (IF i < Len(trucks) - 1
             THEN <<Location(partition_counter, 0, TRUE)>>
                  \o recreate_loop(trucks, i + 1, partition_counter + 1)
             ELSE recreate_loop(trucks, i + 1, partition_counter))

recreate_route_from_trucks(trucks, pi) ==
    LET recreated_solution == Route(recreate_loop(trucks, 0, 0), 0)
    IN Route(recreated_solution.route, fitness_of(recreated_solution, pi))

\* the trucks after the destroy phase, with the heap
destroy_phase(solution, pi) == destroy(trucks_by_excess(solution, pi), 1, {})

\* the trucks after the reinsertion phase, with what is left in the heap
reinsert_phase(solution, pi, pop_order) ==
    LET d == destroy_phase(solution, pi)
    IN reinsert(d.trucks, Len(d.trucks), d.heap, pop_order)

alns_destroy_and_recreate(solution, pi, heap_order) ==
    LET r == reinsert_phase(solution, pi, heap_order)
    IN recreate_route_from_trucks(fallback(r.trucks, r.heap, heap_order), pi)

\* search.rs keeps a private copy of the repair under this name; run calls it
anls_destroy_and_recreate(solution, pi, heap_order) ==
    alns_destroy_and_recreate(solution, pi, heap_order)

(***************************************************************************)
(* utils.rs and solver/tabu_search/search.rs: temperature and the          *)
(* diversification operators.                                              *)
(***************************************************************************)
\* the factor applied to the wrong term
temperature_num_factor_on_runs(runs, iteration_, factor) == runs * factor - iteration_

\* temperature(runs, iteration, factor) = ((runs - iteration) / runs) * factor,
\* a real number: kept as the fraction temperature_num / runs
temperature_num(runs, iteration_, factor) == (runs - iteration_) * factor

\* ceil(a / b) for a >= 0, b > 0
CeilDiv(a, b) == (a + b - 1) \div b

\* Iterator::position: the first 0-based position of x in v, or None
position(v, x) ==
    IF \E p \in 1..Len(v) : v[p] = x
    THEN Some((CHOOSE p \in 1..Len(v) : v[p] = x /\ \A q \in 1..(p - 1) : v[q] # x) - 1)
    ELSE None

\* the loop of steer_towards_best over chosen_indices from k on;
\* panicked: unwrap() on None, or an index out of bounds
RECURSIVE steer_loop(_, _, _, _)
steer_loop(route, best_route, chosen_indices, k) ==
    IF k > Len(chosen_indices) THEN [route |-> route, panicked |-> FALSE]
    ELSE LET idx == chosen_indices[k] IN
         IF idx >= Len(best_route) THEN [route |-> route, panicked |-> TRUE]
         ELSE LET target_value == At(best_route, idx)
                  current_idx == position(route, target_value)
              IN IF current_idx = None THEN [route |-> route, panicked |-> TRUE]
                 ELSE steer_loop(SwapAt(route, idx, current_idx[1]), best_route,
                                 chosen_indices, k + 1)

\* the steer with the target copied into place instead of swapped there
steer_by_copy(current, best, chosen_indices) ==
    [route |-> [q \in 1..Len(current.route) |->
                    IF \E k \in 1..Len(chosen_indices) :
                           chosen_indices[k] = q - 1 /\ q <= Len(best.route)
                    THEN best.route[q] ELSE current.route[q]],
     panicked |-> FALSE]

\* the steer that stops after the first chosen position
steer_first_chosen_only(current, best, chosen_indices) ==
    steer_loop(current.route, best.route,
               IF chosen_indices = <<>> THEN <<>> ELSE <<chosen_indices[1]>>, 1)

steer_towards_best(current, best, chosen_indices) ==
    steer_loop(current.route, best.route, chosen_indices, 1)

\* (0..n).choose_multiple(rng, amount): the reservoir starts as the first
\* min(amount, n) positions in order, and every later position may then
\* overwrite one slot the generator picks
choose_multiple(n, amount) ==
    LET m == Min(amount, n)
    IN {c \in [1..m -> 0..(n - 1)] :
            /\ \A a \in 1..m : c[a] = a - 1 \/ c[a] >= m
            /\ \A a, b \in 1..m : a # b => c[a] # c[b]}

\* the sum of saved[ind - 1].fitness - saved[ind].fitness for ind in from..to
RECURSIVE overall_reduction(_, _, _)
overall_reduction(saved, from, to) ==
    IF from > to THEN 0
    ELSE saved[from - 1].fitness - saved[from].fitness + overall_reduction(saved, from + 1, to)

perform_rollback(saved, len, next_solution, best) ==
    LET needed == len * 4 IN
    IF Len(saved) < needed + 1 THEN next_solution
    ELSE LET start == Len(saved) - needed      \* 0-based
         IN IF /\ overall_reduction(saved, start + 2, Len(saved)) > 0
               /\ next_solution.route # best.route
            THEN best
            ELSE next_solution

\* route[a..=b].reverse() on 0-based positions
reverse_slice(route, a, b) ==
    [q \in 1..Len(route) |->
        IF a + 1 <= q /\ q <= b + 1 THEN route[(a + 1) + (b + 1) - q] ELSE route[q]]

\* final_mutation for the positions the generator drew: pair = (a, b) sorted,
\* triple = (x, y, z) sorted
final_mutation(route, pair, triple) ==
    LET n == Len(route) IN
    IF n < 2 THEN route
    ELSE LET reversed == reverse_slice(route, pair[1], pair[2])
         IN IF n >= 3
            THEN SwapAt(SwapAt(reversed, triple[1], triple[2]), triple[2], triple[3])
            ELSE reversed

(***************************************************************************)
(* setup/init.rs: the problem instance and the initial solution.           *)
(***************************************************************************)
\* distance matrices tried by the function-level specifications: unit
\* distances and an asymmetric matrix
Matrices == {"unit", "skew"}


distance_matrix_of(kind, n) ==
    [i \in 0..(n - 1) |-> [j \in 0..(n - 1) |->
        IF i = j THEN 0
        ELSE IF kind = "unit" THEN 1
        ELSE IF kind = "abs" THEN (IF i < j THEN j - i ELSE i - j)
        ELSE IF kind = "trap" THEN (((2 + i) * j) % 5) + 1
        ELSE (IF i < j THEN j - i ELSE 2 * (i - j))]]

\* demands by node index: the K - 1 depot markers come first and have demand
\* 0 (setup splices the zeros in); profile 0 gives customer i the demand
\* i mod (MaxDemand + 1), profile d > 0 gives every customer demand d
demands_of(profile, n, num_of_trucks) ==
    [i \in 0..(n - 1) |->
        IF i < num_of_trucks - 1 THEN 0
        ELSE IF profile = 0 THEN i % (MaxDemand + 1)
        ELSE profile]

\* demand profiles tried by the function-level specifications
Profiles == {0, 1, MaxDemand}

\* vehicle_cap.sort_unstable_by(|a, b| b.cmp(a)): capacities, sorted descending.
\* Fleets tried: every truck of capacity c, and capacities stepping down from c.
Capacities(num_of_trucks) ==
    {[k \in 1..num_of_trucks |-> c] : c \in 1..MaxCapacity}
        \cup {[k \in 1..num_of_trucks |-> Max(1, c - k + 1)] : c \in 1..MaxCapacity}

ProblemInstance(dm, caps, demands, num_of_trucks, penalty_value) ==
    [distance_matrix |-> dm, vehicle_capacities |-> caps,
     location_demands |-> demands, num_of_trucks |-> num_of_trucks,
     penalty_value |-> penalty_value]

\* the route setup builds from the shuffled indices
initial_route(initial_solution_indices, demands, num_of_trucks) ==
    [k \in 1..Len(initial_solution_indices) |->
        LET ind == initial_solution_indices[k]
        IN Location(ind, demands[ind], ind < num_of_trucks)]

setup(initial_solution_indices, pi) ==
    LET route == Route(initial_route(initial_solution_indices, pi.location_demands,
                                     pi.num_of_trucks), 0)
    IN Route(route.route, fitness_of(route, pi))

\* the shuffle of (0..n): some permutation of the node indices
Shuffles(n) == Permutations_of(0..(n - 1))

(***************************************************************************)
(* The state run holds before its loop (search.rs lines 91-118), for a     *)
(* given instance and initial solution.                                    *)
(***************************************************************************)
InitialTenure == 2      \* len_tabu_list before the first re-sampling

InitSearch(pi, initial_solution) ==
    /\ problem_instance = pi
    /\ current_solution = initial_solution
    /\ best_so_far = initial_solution
    /\ best_so_far_iteration = 0
    /\ saved_solutions = <<>>
    /\ parent_swap = <<Len(initial_solution.route), Len(initial_solution.route)>>
    /\ stagnation = 0
    /\ max_stagnation = 0
    /\ temperature_factor = 1
    /\ ended_early_value = 0
    /\ has_ended = FALSE
    /\ ended_early_iteration = 0
    /\ len_tabu_list = InitialTenure
    /\ tabu_list = <<>>
    /\ best_so_far_updates = <<>>
    /\ iteration = 0
    /\ called = "setup"
    /\ returned = initial_solution

(***************************************************************************)
(* SpecEval: the evaluation functions and the neighbourhood generator      *)
(* applied to every solution of every instance within the bounds.          *)
(***************************************************************************)
InitEval ==
    \E num_of_trucks \in 1..MaxTrucks, n \in 0..MaxNodes, kind \in Matrices,
       profile \in Profiles, penalty_value \in {0, PENALTY_VALUE} :
        /\ n >= num_of_trucks - 1
        /\ \E caps \in Capacities(num_of_trucks), indices \in Shuffles(n) :
              LET pi == ProblemInstance(distance_matrix_of(kind, n), caps,
                                        demands_of(profile, n, num_of_trucks),
                                        num_of_trucks, penalty_value)
              IN InitSearch(pi, setup(indices, pi))

CallFindFitness ==
    /\ called' = "find_fitness"
    /\ returned' = fitness_of(current_solution, problem_instance)
    /\ UNCHANGED <<problem_instance, search_vars>>

CallFindDistance ==
    /\ called' = "find_distance"
    /\ returned' = find_distance(current_solution, problem_instance.distance_matrix)
    /\ UNCHANGED <<problem_instance, search_vars>>

CallPenalty ==
    /\ called' = "penalty"
    /\ returned' = penalty(current_solution, problem_instance.penalty_value,
                           problem_instance.num_of_trucks,
                           problem_instance.vehicle_capacities)
    /\ UNCHANGED <<problem_instance, search_vars>>

CallFindNeighbours ==
    /\ called' = "find_neighbours"
    /\ returned' = find_neighbours(current_solution, problem_instance)
    /\ UNCHANGED <<problem_instance, search_vars>>

NextEval == CallFindFitness \/ CallFindDistance \/ CallPenalty \/ CallFindNeighbours

SpecEval == InitEval /\ [][NextEval]_vars

(***************************************************************************)
(* Claims about the evaluation functions, checked under SpecEval.          *)
(***************************************************************************)
\* dm[seq[0]][seq[1]] + ... + dm[seq[k-1]][seq[k]], positions counted from 1
RECURSIVE LegsUpTo(_, _, _)
LegsUpTo(seq, k, dm) ==
    IF k <= 1 THEN 0
    ELSE LegsUpTo(seq, k - 1, dm) + dm[seq[k - 1].index][seq[k].index]

ClosedFormDistance(seq, dm) ==
    IF Len(seq) = 0 THEN 0
    ELSE dm[0][seq[1].index] + LegsUpTo(seq, Len(seq), dm) + dm[seq[Len(seq)].index][0]

\* C4: find_fitness(s) = find_distance(s) + penalty(s), where find_distance
\* is 0 for an empty sequence and otherwise the depot leg to seq[0], the legs
\* between consecutive nodes and the leg back to the depot; hence
\* fitness(s) >= distance(s) >= 0.
C4_FitnessIsDistancePlusPenalty ==
    LET pi == problem_instance
        dist == find_distance(current_solution, pi.distance_matrix)
        pen == penalty(current_solution, pi.penalty_value, pi.num_of_trucks,
                       pi.vehicle_capacities)
    IN /\ called = "find_fitness" =>
            /\ returned = dist + pen
            /\ returned >= dist
            /\ dist >= 0
       /\ called = "find_distance" =>
            /\ returned = ClosedFormDistance(current_solution.route, pi.distance_matrix)
            /\ returned >= 0

C4_Witness ==
    /\ called = "find_fitness"
    /\ Len(current_solution.route) >= 3
    /\ returned > find_distance(current_solution, problem_instance.distance_matrix)
    /\ find_distance(current_solution, problem_instance.distance_matrix) > 0

\* the segments of a route: each starts after a boundary (position 0 or a
\* depot marker, index < K - 1) and ends before the next one
IsMarkerAt(seq, p, num_of_trucks) == seq[p].index < num_of_trucks - 1

SegmentStarts(seq, num_of_trucks) ==
    {0} \cup {p \in 1..Len(seq) : IsMarkerAt(seq, p, num_of_trucks)}

SegmentEnd(seq, a, num_of_trucks) ==
    IF \E p \in (a + 1)..Len(seq) : IsMarkerAt(seq, p, num_of_trucks)
    THEN CHOOSE p \in (a + 1)..Len(seq) :
            /\ IsMarkerAt(seq, p, num_of_trucks)
            /\ \A q \in (a + 1)..(p - 1) : ~IsMarkerAt(seq, q, num_of_trucks)
    ELSE Len(seq) + 1

RECURSIVE DemandFromTo(_, _, _)
DemandFromTo(seq, a, b) ==
    IF a > b THEN 0 ELSE seq[a].demand + DemandFromTo(seq, a + 1, b)

SegmentLoad(seq, a, num_of_trucks) ==
    DemandFromTo(seq, a + 1, SegmentEnd(seq, a, num_of_trucks) - 1)

\* with loads and capacities both sorted descending, load r <= capacity r at
\* every rank r: fewer than r segments are heavier than the capacity at rank r
NoRankOverloaded(seq, num_of_trucks, caps) ==
    \A r \in 1..Len(caps) :
        Cardinality({a \in SegmentStarts(seq, num_of_trucks) :
                        SegmentLoad(seq, a, num_of_trucks) > caps[r]}) < r

\* C5 as stated: for every penalty value P >= 0, penalty(s) = 0 iff the load
\* at every rank is at most the capacity at that rank.
C5_PenaltyZeroIffNoOverload_AnyP ==
    called = "penalty" =>
        (returned = 0 <=> NoRankOverloaded(current_solution.route,
                                           problem_instance.num_of_trucks,
                                           problem_instance.vehicle_capacities))

\* C5 amended: for every penalty value P > 0, penalty(s) = 0 iff the load at
\* every rank is at most the capacity at that rank; for P = 0 the penalty is 0
\* whatever the loads.
C5_PenaltyZeroIffNoOverload ==
    called = "penalty" =>
        /\ problem_instance.penalty_value > 0 =>
              (returned = 0 <=> NoRankOverloaded(current_solution.route,
                                                 problem_instance.num_of_trucks,
                                                 problem_instance.vehicle_capacities))
        /\ problem_instance.penalty_value = 0 => returned = 0

C5_Witness ==
    /\ called = "penalty"
    /\ problem_instance.penalty_value > 0
    /\ problem_instance.num_of_trucks = 2
    /\ returned > 0
    /\ Cardinality({a \in SegmentStarts(current_solution.route, 2) :
                       SegmentLoad(current_solution.route, a, 2) > 0}) = 2

\* C7: for a solution of length N, find_neighbours returns exactly N(N-1)/2
\* entries, one for each pair 0 <= i < j < N and no pair twice, and the
\* fitness stored with (i, j) is find_fitness of the input with i and j swapped.
C7_NeighbourhoodComplete ==
    called = "find_neighbours" =>
        LET n == Len(current_solution.route) IN
        /\ 2 * Len(returned) = n * (n - 1)
        /\ \A i, j \in 0..(n - 1) :
              i < j => Cardinality({k \in 1..Len(returned) : returned[k][2] = <<i, j>>}) = 1
        /\ \A k \in 1..Len(returned) :
              /\ returned[k][2][1] < returned[k][2][2]
              /\ returned[k][1] =
                     fitness_of(Route(SwapAt(current_solution.route,
                                             returned[k][2][1], returned[k][2][2]), 0),
                                problem_instance)

C7_Witness ==
    /\ called = "find_neighbours"
    /\ Len(current_solution.route) >= 4
    /\ Len(returned) >= 6
    /\ \E k, m \in 1..Len(returned) : returned[k][1] # returned[m][1]

LexLess(p, q) == p[1] < q[1] \/ (p[1] = q[1] /\ p[2] < q[2])

\* C8: the list find_neighbours returns is sorted by fitness in non-decreasing
\* order, and entries of equal fitness are in lexicographic order of their pair.
C8_NeighbourhoodSorted ==
    called = "find_neighbours" =>
        \A k, m \in 1..Len(returned) :
            k < m =>
                /\ returned[k][1] <= returned[m][1]
                /\ returned[k][1] = returned[m][1] => LexLess(returned[k][2], returned[m][2])

C8_Witness ==
    /\ called = "find_neighbours"
    /\ \E k \in 1..(Len(returned) - 1) : returned[k][1] = returned[k + 1][1]
    /\ \E k \in 1..(Len(returned) - 1) : returned[k][1] < returned[k + 1][1]
    /\ \E k \in 1..(Len(returned) - 1) :
          returned[k][1] < returned[k + 1][1] /\ LexLess(returned[k + 1][2], returned[k][2])

(***************************************************************************)
(* SpecTabu: the tabu list and the candidate selector.  The list is built  *)
(* by insert_and_adjust_tabu_list from the empty list, for moves in either *)
(* orientation (and the selector's sentinel (0, 0)) under a tenure that is *)
(* re-sampled in between; run sets parent_swap to the move it has just     *)
(* inserted.  The selector is applied to the neighbourhood of the current  *)
(* solution.                                                               *)
(***************************************************************************)
\* the initial solutions tried: 0, 1, ..., n - 1 and its rotation by one
Rotations(n) == {[k \in 1..n |-> (k - 1 + shift) % n] : shift \in {0, 1}}

InitTabu ==
    \E indices \in Rotations(MaxNodes) :
        LET num_of_trucks == 2
            pi == ProblemInstance(distance_matrix_of("abs", MaxNodes),
                                  [k \in 1..num_of_trucks |-> MaxCapacity],
                                  demands_of(1, MaxNodes, num_of_trucks),
                                  num_of_trucks, PENALTY_VALUE)
        IN InitSearch(pi, setup(indices, pi))

CallInsertAndAdjustTabuList ==
    \E i, j \in 0..(Len(current_solution.route) - 1) :
        /\ tabu_list' = insert_and_adjust_tabu_list(tabu_list, <<i, j>>, len_tabu_list)
        /\ parent_swap' = <<i, j>>
        /\ called' = "insert_and_adjust_tabu_list"
        /\ returned' = <<i, j>>
        /\ UNCHANGED <<problem_instance, current_solution, best_so_far,
                       best_so_far_iteration, saved_solutions, stagnation,
                       max_stagnation, temperature_factor, ended_early_value,
                       has_ended, ended_early_iteration, len_tabu_list,
                       best_so_far_updates, iteration>>

\* the tenure is re-sampled between two insertions
ResampleTenure ==
    \E tenure \in 0..MaxTenure :
        /\ tenure # len_tabu_list
        /\ len_tabu_list' = tenure
        /\ called' = "gen_range"
        /\ returned' = tenure
        /\ UNCHANGED <<problem_instance, current_solution, best_so_far,
                       best_so_far_iteration, saved_solutions, parent_swap, stagnation,
                       max_stagnation, temperature_factor, ended_early_value,
                       has_ended, ended_early_iteration, tabu_list,
                       best_so_far_updates, iteration>>

CallChooseBestCandidate ==
    \E aspiration \in {0, aspiration_threshold} :
        /\ called' = "choose_best_candidate"
        /\ returned' =
              [aspiration_threshold |-> aspiration,
               chosen_solution |->
                   choose_best_candidate(
                       find_neighbours(current_solution, problem_instance),
                       tabu_list, best_so_far, aspiration, parent_swap)]
        /\ UNCHANGED <<problem_instance, search_vars>>

NextTabu == CallInsertAndAdjustTabuList \/ ResampleTenure \/ CallChooseBestCandidate

SpecTabu == InitTabu /\ [][NextTabu]_vars

(***************************************************************************)
(* Claims about the tabu list and the selector, checked under SpecTabu.    *)
(***************************************************************************)
\* C3: after insert_and_adjust_tabu_list(tabu_list, swap_move, tenure), for any
\* swap_move and any tenure, the list has at most tenure entries and every
\* stored pair (first, second) satisfies first < second.
C3_TabuBoundedAndNormalised ==
    called = "insert_and_adjust_tabu_list" =>
        /\ Len(tabu_list) <= len_tabu_list
        /\ \A k \in 1..Len(tabu_list) : tabu_list[k][1] < tabu_list[k][2]

\* the pair p is stored in the list in ascending order of its components
StoredSorted(list, p) ==
    \E k \in 1..Len(list) : list[k] = <<Min(p[1], p[2]), Max(p[1], p[2])>>

\* C9: tabu membership does not depend on the order of a pair's components:
\* for every list built by insert_and_adjust_tabu_list and all positions a, b
\* the selector treats (a, b) as tabu iff it treats (b, a) as tabu, whichever
\* orientation was inserted (the move just inserted is tabu both ways round).
C9_TabuOrientationFree ==
    LET n == Len(current_solution.route) IN
    /\ \A a, b \in 0..(n - 1) :
          /\ is_tabu(tabu_list, <<a, b>>) <=> is_tabu(tabu_list, <<b, a>>)
          /\ is_tabu(tabu_list, <<a, b>>) <=> StoredSorted(tabu_list, <<a, b>>)
    /\ (called = "insert_and_adjust_tabu_list" /\ len_tabu_list >= 1) =>
          /\ is_tabu(tabu_list, returned)
          /\ is_tabu(tabu_list, <<returned[2], returned[1]>>)

C9_Witness ==
    /\ called = "insert_and_adjust_tabu_list"
    /\ returned[1] > returned[2]
    /\ Len(tabu_list) >= 2
    /\ is_tabu(tabu_list, returned)
    /\ is_tabu(tabu_list, <<returned[2], returned[1]>>)

SharesIndex(p, q) == {p[1], p[2]} \cap {q[1], q[2]} # {}

\* the aspiration condition for the best neighbour c
Aspires(c, best_fitness, threshold, parent) ==
    /\ c[1] - best_fitness <= threshold
    /\ best_fitness - c[1] <= threshold
    /\ ~SharesIndex(c[2], parent)

\* C10: if the best neighbour S[0] has its normalised pair in the tabu list,
\* its fitness f satisfies |f - best.fitness| <= A and its pair shares no
\* index with parent_swap, then choose_best_candidate returns S[0].
C10_Aspiration ==
    called = "choose_best_candidate" =>
        LET S == find_neighbours(current_solution, problem_instance) IN
        (/\ S # <<>>
         /\ StoredSorted(tabu_list, S[1][2])
         /\ Aspires(S[1], best_so_far.fitness, returned.aspiration_threshold, parent_swap))
            => returned.chosen_solution = S[1]

\* the aspiration case, with an admissible neighbour further down the list
C10_Witness ==
    /\ called = "choose_best_candidate"
    /\ LET S == find_neighbours(current_solution, problem_instance) IN
         /\ S # <<>>
         /\ StoredSorted(tabu_list, S[1][2])
         /\ Aspires(S[1], best_so_far.fitness, returned.aspiration_threshold, parent_swap)
         /\ returned.chosen_solution = S[1]
         /\ \E k \in 2..Len(S) :
               ~StoredSorted(tabu_list, S[k][2]) /\ ~SharesIndex(S[k][2], parent_swap)

\* the candidate c may be chosen by the scan: not tabu, no index shared with
\* the parent swap
Admissible(c, list, parent) ==
    ~StoredSorted(list, c[2]) /\ ~SharesIndex(c[2], parent)

\* C11: when S[0] is tabu and the aspiration condition fails,
\* choose_best_candidate returns the first element of S, in list order, whose
\* normalised pair is not tabu and whose pair shares no index with
\* parent_swap; if no element of S qualifies it returns S[0].
C11_FirstAdmissible ==
    called = "choose_best_candidate" =>
        LET S == find_neighbours(current_solution, problem_instance) IN
        (/\ S # <<>>
         /\ StoredSorted(tabu_list, S[1][2])
         /\ ~Aspires(S[1], best_so_far.fitness, returned.aspiration_threshold, parent_swap))
            => IF \E k \in 1..Len(S) : Admissible(S[k], tabu_list, parent_swap)
               THEN \E k \in 1..Len(S) :
                       /\ Admissible(S[k], tabu_list, parent_swap)
                       /\ \A m \in 1..(k - 1) : ~Admissible(S[m], tabu_list, parent_swap)
                       /\ returned.chosen_solution = S[k]
               ELSE returned.chosen_solution = S[1]

\* the scan passed over a candidate that is not tabu but overlaps the parent
\* swap, and returned a later one
C11_Witness ==
    /\ called = "choose_best_candidate"
    /\ LET S == find_neighbours(current_solution, problem_instance) IN
         /\ S # <<>>
         /\ StoredSorted(tabu_list, S[1][2])
         /\ ~Aspires(S[1], best_so_far.fitness, returned.aspiration_threshold, parent_swap)
         /\ \E k \in 3..Len(S) :
               /\ returned.chosen_solution = S[k]
               /\ Admissible(S[k], tabu_list, parent_swap)
               /\ \E m \in 2..(k - 1) :
                     ~StoredSorted(tabu_list, S[m][2]) /\ SharesIndex(S[m][2], parent_swap)

(***************************************************************************)
(* SpecRepair: the repair operator applied to every initial solution of    *)
(* every instance within the bounds, for every order in which the heap may *)
(* break ties and be drained.                                              *)
(***************************************************************************)
InitRepair ==
    \E num_of_trucks \in 1..MaxTrucks, n \in 1..MaxNodes, profile \in Profiles :
        /\ n >= num_of_trucks - 1
        /\ \E caps \in Capacities(num_of_trucks), indices \in Shuffles(n) :
              LET pi == ProblemInstance(distance_matrix_of("abs", n), caps,
                                        demands_of(profile, n, num_of_trucks),
                                        num_of_trucks, PENALTY_VALUE)
              IN InitSearch(pi, setup(indices, pi))

\* expect("Error: Tried to pop from an empty route!") aborting the program
PopPanic == "panic: Error: Tried to pop from an empty route!"

\* the orders in which the destroyed locations may leave the heap
HeapOrders(heap) == Permutations_of({x.index : x \in heap})

CallAlnsDestroyAndRecreate ==
    LET d == destroy_phase(current_solution, problem_instance) IN
    \E heap_order \in HeapOrders(d.heap) :
        /\ called = "setup"
        /\ called' = IF d.panicked THEN PopPanic ELSE "alns_destroy_and_recreate"
        /\ returned' = IF d.panicked THEN current_solution
                        ELSE alns_destroy_and_recreate(current_solution, problem_instance,
                                                       heap_order)
        /\ UNCHANGED <<problem_instance, search_vars>>

NextRepair == CallAlnsDestroyAndRecreate

SpecRepair == InitRepair /\ [][NextRepair]_vars

(***************************************************************************)
(* Claims about the repair operator, checked under SpecRepair.             *)
(***************************************************************************)
\* the 0-based indices of route seq are exactly 0 .. n - 1, each once
IsPermutationOfNodes(seq, n) ==
    /\ Len(seq) = n
    /\ \A i \in 0..(n - 1) : Cardinality({p \in 1..Len(seq) : seq[p].index = i}) = 1

MarkerPositions(seq, num_of_trucks) ==
    {p \in 1..Len(seq) : seq[p].index < num_of_trucks - 1}

\* C6: given a permutation of [0, N) whose depot markers are the nodes of index
\* < K - 1, repair returns a permutation of [0, N) with exactly K - 1 depot
\* markers, the k-th marker in sequence order having index k, and every
\* customer node of the input present exactly once.
C6_RepairKeepsPermutation ==
    called \in {"alns_destroy_and_recreate", PopPanic} =>
        LET n == Len(current_solution.route)
            K == problem_instance.num_of_trucks
            out == returned.route
            markers == MarkerPositions(out, K)
        IN /\ called = "alns_destroy_and_recreate"
           /\ IsPermutationOfNodes(out, n)
           /\ Cardinality(markers) = K - 1
           /\ \A p \in markers :
                 out[p].index = Cardinality({q \in markers : q < p})
           /\ \A p \in 1..n :
                 current_solution.route[p].index >= K - 1 =>
                     Cardinality({q \in 1..Len(out) : out[q] = current_solution.route[p]}) = 1

\* a repair that destroyed customers, with two markers, and moved a customer
C6_Witness ==
    /\ called = "alns_destroy_and_recreate"
    /\ problem_instance.num_of_trucks = 3
    /\ destroy_phase(current_solution, problem_instance).heap # {}
    /\ returned.route # current_solution.route
    /\ IsPermutationOfNodes(returned.route, Len(current_solution.route))


\* the repair under way destroyed customers and its reinsertion phase, popping
\* in heap_order, emptied the heap, so that the fallback was not used
Absorbed(heap_order) ==
    /\ destroy_phase(current_solution, problem_instance).heap # {}
    /\ reinsert_phase(current_solution, problem_instance, heap_order).heap = {}
    /\ returned = alns_destroy_and_recreate(current_solution, problem_instance,
                                            heap_order)

\* no truck of the solution carries more than its capacity
NoTruckOverloaded(solution, pi) ==
    \A k \in 1..Len(trucks_by_excess(solution, pi)) :
        trucks_by_excess(solution, pi)[k].excess <= 0

penalty_of(solution, pi) ==
    penalty(solution, pi.penalty_value, pi.num_of_trucks, pi.vehicle_capacities)

\* C16: if the reinsertion phase of repair empties the heap, so that the
\* fallback is not used, then in the repaired solution no truck's load exceeds
\* its capacity and the overload penalty is 0.
C16_RepairEliminatesOverload ==
    called = "alns_destroy_and_recreate" =>
        \A heap_order \in HeapOrders(destroy_phase(current_solution,
                                                   problem_instance).heap) :
            Absorbed(heap_order) =>
                /\ NoTruckOverloaded(returned, problem_instance)
                /\ penalty_of(returned, problem_instance) = 0

\* two trucks of capacity 1 and three customers of demand 1, all on one truck:
\* two customers are destroyed, the empty truck takes both, and is overloaded
C16_AbsorbedButOverloaded ==
    /\ called = "alns_destroy_and_recreate"
    /\ problem_instance.num_of_trucks = 2
    /\ problem_instance.vehicle_capacities = <<1, 1>>
    /\ \E heap_order \in HeapOrders(destroy_phase(current_solution,
                                                  problem_instance).heap) :
          /\ Absorbed(heap_order)
          /\ Cardinality(destroy_phase(current_solution, problem_instance).heap) = 2
    /\ ~NoTruckOverloaded(returned, problem_instance)
    /\ penalty_of(returned, problem_instance) > 0

\* the reinsertion phase of the repair under way examines the top of the heap:
\* customers were destroyed and the truck of least excess has room
TopExamined ==
    LET d == destroy_phase(current_solution, problem_instance)
    IN /\ called = "alns_destroy_and_recreate"
       /\ d.heap # {}
       /\ d.trucks[Len(d.trucks)].excess < 0

\* C17: the heap of destroyed customers is a max-heap by demand: the customer
\* at the top of the heap, examined and popped next by the reinsertion phase,
\* has the largest demand among the customers in the heap.
C17_TopHasLargestDemand ==
    TopExamined =>
        LET heap == destroy_phase(current_solution, problem_instance).heap
        IN \A heap_order \in HeapOrders(heap) :
               \A y \in heap : peek(heap, heap_order).demand >= y.demand

\* the top of the heap is a customer of the smallest demand while the heap
\* holds a customer of larger demand
C17_TopHasSmallestDemand ==
    /\ TopExamined
    /\ LET heap == destroy_phase(current_solution, problem_instance).heap
       IN \A heap_order \in HeapOrders(heap) :
              /\ \A y \in heap : peek(heap, heap_order).demand <= y.demand
              /\ \E y \in heap : peek(heap, heap_order).demand < y.demand

(***************************************************************************)
(* Spec: the main loop of run (search.rs lines 132-265), one action per    *)
(* iteration.  The periods and lengths of the loop are scaled down so that *)
(* every branch of an iteration is taken within a few iterations.          *)
(***************************************************************************)
RUNS == 7                   \* iterations of the loop
RollbackPeriod == 3         \* iteration % 50 in the source
SteerPeriod == 4            \* iteration % 40 in the source
TenurePeriod == 2           \* iteration % 20 in the source
tl_lower_bound_len == 1     \* 11 in the source
tl_upper_bound_len == 3     \* 29 in the source
max_no_improvement == 4     \* max(300, ...) in the source

\* slice::swap and indexing abort the program on a position past the end
IndexPanic == "panic: index out of bounds"
\* Option::unwrap aborts the program on None
UnwrapPanic == "panic: called Option::unwrap() on a None value"

\* the shuffles the loop is started from: 0, 1, ..., n - 1, its rotation by
\* one, and the order with the first and the last node exchanged
Starts(n) ==
    Rotations(n) \cup (IF n = 0 THEN {} ELSE {SwapAt([k \in 1..n |-> k - 1], 0, n - 1)})

\* a shuffle that starts the loop in a local optimum of the "trap" matrix:
\* n - 1, n - 2, 0, 1, ..., n - 3
TrapStart(n) ==
    [k \in 1..n |-> IF k = 1 THEN n - 1 ELSE IF k = 2 THEN n - 2 ELSE k - 3]

\* a shuffle of the overloaded instance: 0, 2, 1, 3, ..., n - 1
OverloadedStart(n) == SwapAt([k \in 1..n |-> k - 1], 1, 2)

\* the instances the loop is run on: line distances with every fleet and the
\* demand profiles 0 and 1; the asymmetric "trap" matrix on which the search
\* stalls before it improves again; and an overloaded fleet (four nodes, every
\* customer of demand 2, capacities 2 and 1) on which the repair improves on
\* an improving neighbour
Init ==
    \/ \E num_of_trucks \in 1..2 :
       \E n \in (IF num_of_trucks = 1 THEN {0, 1} ELSE {MaxNodes}) :
       \E caps \in Capacities(num_of_trucks) :
       \E profile \in {0, 1} :
       \E initial_solution_indices \in Starts(n) :
           LET pi == ProblemInstance(distance_matrix_of("abs", n),
                                     caps, demands_of(profile, n, num_of_trucks),
                                     num_of_trucks, PENALTY_VALUE)
           IN InitSearch(pi, setup(initial_solution_indices, pi))
    \/ LET pi == ProblemInstance(distance_matrix_of("trap", MaxNodes),
                                 [k \in 1..2 |-> MaxCapacity],
                                 demands_of(0, MaxNodes, 2), 2, PENALTY_VALUE)
       IN InitSearch(pi, setup(TrapStart(MaxNodes), pi))
    \/ LET pi == ProblemInstance(distance_matrix_of("abs", 4),
                                 <<2, 1>>, demands_of(2, 4, 2), 2, PENALTY_VALUE)
       IN InitSearch(pi, setup(OverloadedStart(4), pi))

\* the outcomes of  U[0,1) * U[lo,hi) <= temp * U[lo2,1)  with hi = 0.6:
\* it can always hold (the first factor can be 0) and it can fail exactly
\* when temp * lo2 < 0.6, that is temp < num / den for num / den = 0.6 / lo2
gate_outcomes(it, factor, num, den) ==
    {TRUE} \cup (IF den * temperature_num(RUNS, it, factor) < num * RUNS
                 THEN {FALSE} ELSE {})

\* the bookkeeping with the early end recorded again at every later iteration
\* whose streak is at max_no_improvement or beyond
stagnation_step_rearms(it, best_it, best_fitness) ==
    IF best_it # it
    THEN LET s == stagnation + 1 IN
         IF s >= max_no_improvement
         THEN [stagnation |-> s, max_stagnation |-> max_stagnation,
               temperature_factor |-> temperature_factor,
               ended_early_value |-> best_fitness, has_ended |-> TRUE,
               ended_early_iteration |-> it]
         ELSE [stagnation |-> s, max_stagnation |-> max_stagnation,
               temperature_factor |->
                   IF s >= max_no_improvement \div 2 /\ ~has_ended
                   THEN 2 ELSE temperature_factor,
               ended_early_value |-> ended_early_value, has_ended |-> has_ended,
               ended_early_iteration |-> ended_early_iteration]
    ELSE [stagnation |-> 0, max_stagnation |-> Max(stagnation, max_stagnation),
          temperature_factor |-> 1,
          ended_early_value |-> ended_early_value, has_ended |-> has_ended,
          ended_early_iteration |-> ended_early_iteration]

\* the bookkeeping with the streak counter restarted when the early end is
\* recorded
stagnation_step_restarts_on_end(it, best_it, best_fitness) ==
    IF best_it # it
    THEN LET s == stagnation + 1 IN
         IF s >= max_no_improvement /\ ~has_ended
         THEN [stagnation |-> 0, max_stagnation |-> max_stagnation,
               temperature_factor |-> temperature_factor,
               ended_early_value |-> best_fitness, has_ended |-> TRUE,
               ended_early_iteration |-> it]
         ELSE [stagnation |-> s, max_stagnation |-> max_stagnation,
               temperature_factor |->
                   IF s >= max_no_improvement \div 2 /\ ~has_ended
                   THEN 2 ELSE temperature_factor,
               ended_early_value |-> ended_early_value, has_ended |-> has_ended,
               ended_early_iteration |-> ended_early_iteration]
    ELSE [stagnation |-> 0, max_stagnation |-> Max(stagnation, max_stagnation),
          temperature_factor |-> 1,
          ended_early_value |-> ended_early_value, has_ended |-> has_ended,
          ended_early_iteration |-> ended_early_iteration]

\* the bookkeeping with the factor raised after the early end as well
stagnation_step_promotes_after_end(it, best_it, best_fitness) ==
    IF best_it # it
    THEN LET s == stagnation + 1 IN
         IF s >= max_no_improvement /\ ~has_ended
         THEN [stagnation |-> s, max_stagnation |-> max_stagnation,
               temperature_factor |-> temperature_factor,
               ended_early_value |-> best_fitness, has_ended |-> TRUE,
               ended_early_iteration |-> it]
         ELSE [stagnation |-> s, max_stagnation |-> max_stagnation,
               temperature_factor |->
                   IF s >= max_no_improvement \div 2
                   THEN 2 ELSE temperature_factor,
               ended_early_value |-> ended_early_value, has_ended |-> has_ended,
               ended_early_iteration |-> ended_early_iteration]
    ELSE [stagnation |-> 0, max_stagnation |-> Max(stagnation, max_stagnation),
          temperature_factor |-> 1,
          ended_early_value |-> ended_early_value, has_ended |-> has_ended,
          ended_early_iteration |-> ended_early_iteration]

\* lines 245-259: the stagnation bookkeeping after the best-so-far updates
stagnation_step(it, best_it, best_fitness) ==
    IF best_it # it
    THEN LET s == stagnation + 1 IN
         IF s >= max_no_improvement /\ ~has_ended
         THEN [stagnation |-> s, max_stagnation |-> max_stagnation,
               temperature_factor |-> temperature_factor,
               ended_early_value |-> best_fitness, has_ended |-> TRUE,
               ended_early_iteration |-> it]
         ELSE [stagnation |-> s, max_stagnation |-> max_stagnation,
               temperature_factor |->
                   IF s >= max_no_improvement \div 2 /\ ~has_ended
                   THEN 2 ELSE temperature_factor,
               ended_early_value |-> ended_early_value, has_ended |-> has_ended,
               ended_early_iteration |-> ended_early_iteration]
    ELSE [stagnation |-> 0, max_stagnation |-> Max(stagnation, max_stagnation),
          temperature_factor |-> 1,
          ended_early_value |-> ended_early_value, has_ended |-> has_ended,
          ended_early_iteration |-> ended_early_iteration]

\* the test with ties accepted
is_new_best_or_equal(candidate, best) == candidate.fitness <= best.fitness

\* the test with the comparison dropped
is_new_best_always(candidate, best) == TRUE

\* the test of lines 169 and 235: the candidate replaces best_so_far
is_new_best(candidate, best) == candidate.fitness < best.fitness

\* the program aborts: nothing else happens
Abort(message) ==
    /\ called' = message
    /\ UNCHANGED <<problem_instance, returned>>
    /\ UNCHANGED search_vars

\* a value that went through a fallible call
Ok(route) == [route |-> route, panicked |-> FALSE]

\* lines 188-206: what the diversification can leave in next_solution.route
\* at iteration it, given whether the rollback branch is entered
diversify(it, rollback, steer, saved, final_neighbour, best) ==
    IF rollback
    THEN {Ok(perform_rollback(saved, len_tabu_list, final_neighbour, best).route)}
    ELSE IF steer
    THEN LET n == Len(final_neighbour.route)
             temp_num == temperature_num(RUNS, it, temperature_factor)
         IN {steer_towards_best(final_neighbour, best, chosen_indices) :
                chosen_indices \in UNION {choose_multiple(n, num_to_change) :
                    num_to_change \in 0..CeilDiv(n * temp_num, RUNS)}}
    ELSE {Ok(final_neighbour.route)}

\* (0..n).choose_multiple(rng, 2) and (0..n).choose_multiple(rng, 3), sorted
SortedPairs(n) == {p \in (0..(n - 1)) \X (0..(n - 1)) : p[1] < p[2]}

SortedTriples(n) ==
    {t \in (0..(n - 1)) \X (0..(n - 1)) \X (0..(n - 1)) : t[1] < t[2] /\ t[2] < t[3]}

\* the draws of final_mutation the loop is run with: the first and the last
\* pair, each with the first and the last triple of positions
MutationDraws(n) ==
    IF n < 2 THEN {<<<<>>, <<>>>>}
    ELSE IF n < 3 THEN {<<<<0, 1>>, <<>>>>}
    ELSE {<<<<0, 1>>, <<0, 1, 2>>>>, <<<<0, n - 1>>, <<n - 3, n - 2, n - 1>>>>}

\* a loop that leaves at the early end
loop_breaks_when_ended(done) == done < RUNS /\ ~has_ended

\* for iteration in 1..=RUNS: another pass follows after done passes
loop_continues(done) == done < RUNS

\* a generator whose range includes its upper end
gen_range_inclusive(lower, upper) == lower..upper

\* rng.gen_range(lower..upper): any value of the half-open range
gen_range(lower, upper) == lower..(upper - 1)

\* one pass of  for iteration in 1..=RUNS  (lines 132-265)
Iteration ==
    /\ called \in {"setup", "run"}
    /\ loop_continues(iteration)
    /\ \E chosen_solution \in
            {choose_best_candidate(find_neighbours(current_solution, problem_instance),
                                   tabu_list, best_so_far, aspiration_threshold,
                                   parent_swap)} :
       LET it == iteration + 1
           pi == problem_instance
           n == Len(current_solution.route)
           saved == Append(saved_solutions, current_solution)
           swap_move == chosen_solution[2]
       IN
       IF swap_move[1] >= n \/ swap_move[2] >= n THEN Abort(IndexPanic)
       ELSE
       LET final_neighbour == Route(SwapAt(current_solution.route, swap_move[1],
                                           swap_move[2]), chosen_solution[1])
           improved1 == is_new_best(final_neighbour, best_so_far)
           best1 == IF improved1 THEN final_neighbour ELSE best_so_far
           best_it1 == IF improved1 THEN it ELSE best_so_far_iteration
           updates1 == IF improved1
                       THEN Append(best_so_far_updates, <<it, final_neighbour.fitness>>)
                       ELSE best_so_far_updates
           rollback_due == it % RollbackPeriod = 0 /\ Len(saved) > len_tabu_list * 4
           steer_due == it % SteerPeriod = 0
           tenure_due == it % TenurePeriod = 0 /\ tl_lower_bound_len < tl_upper_bound_len
       IN
       \E rollback_gate \in (IF rollback_due
                             THEN gate_outcomes(it, temperature_factor, 2, 3)
                             ELSE {FALSE}) :
       \E diversified \in diversify(it, rollback_gate, steer_due, saved,
                                    final_neighbour, best1) :
       IF diversified.panicked THEN Abort(UnwrapPanic)
       ELSE
       \E next_solution \in {Route(diversified.route,
                                   fitness_of(Route(diversified.route, 0), pi))} :
       LET next_dist == find_distance(next_solution, pi.distance_matrix)
           defect == next_solution.fitness > next_dist
       IN
       IF defect /\ destroy_phase(next_solution, pi).panicked THEN Abort(PopPanic)
       ELSE
       \E repaired \in (IF defect
                        THEN {anls_destroy_and_recreate(next_solution, pi, heap_order) :
                                heap_order \in HeapOrders(destroy_phase(next_solution, pi).heap)}
                        ELSE {next_solution}) :
       \E new_len \in (IF tenure_due
                       THEN gen_range(tl_lower_bound_len, tl_upper_bound_len)
                       ELSE {len_tabu_list}) :
       \E mutation_gate \in gate_outcomes(it, temperature_factor, 3, 4) :
       \* line 216: final_mutation(&mut current_solution, ..) rewrites
       \* current_solution, which line 261 replaces by next_solution
       \E mutated_current \in
            (IF mutation_gate
             THEN {final_mutation(current_solution.route, draw[1], draw[2]) :
                      draw \in MutationDraws(n)}
             ELSE {current_solution.route}) :
       LET improved2 == is_new_best(repaired, best1)
           best2 == IF improved2 THEN repaired ELSE best1
           best_it2 == IF improved2 THEN it ELSE best_it1
           st == stagnation_step(it, best_it2, best2.fitness)
       IN /\ saved_solutions' = saved
          /\ tabu_list' = insert_and_adjust_tabu_list(tabu_list, swap_move, len_tabu_list)
          /\ parent_swap' = swap_move
          /\ len_tabu_list' = new_len
          /\ best_so_far' = best2
          /\ best_so_far_iteration' = best_it2
          /\ best_so_far_updates' = IF improved2
                                    THEN Append(updates1, <<it, repaired.fitness>>)
                                    ELSE updates1
          /\ stagnation' = st.stagnation
          /\ max_stagnation' = st.max_stagnation
          /\ temperature_factor' = st.temperature_factor
          /\ ended_early_value' = st.ended_early_value
          /\ has_ended' = st.has_ended
          /\ ended_early_iteration' = st.ended_early_iteration
          /\ current_solution' = repaired
          /\ iteration' = it
          /\ called' = "run"
          /\ returned' = [first_update |-> improved1, rollback |-> rollback_gate,
                          steer |-> ~rollback_gate /\ steer_due,
                          resampled |-> tenure_due, mutated |-> mutation_gate,
                          repaired |-> defect, second_update |-> improved2,
                          temperature_num |->
                              temperature_num(RUNS, it, temperature_factor),
                          next_route |-> diversified.route]
          /\ UNCHANGED problem_instance

Next == Iteration

Spec == Init /\ [][Next]_vars

\* the end of a pass seen from the loop counter alone
Pass ==
    /\ called \in {"setup", "run"}
    /\ loop_continues(iteration)
    /\ iteration' = iteration + 1

\* the loop body has no blocking call: while the for loop has passes left and
\* the program has not aborted, the pass under way comes to its end
SpecFair == Spec /\ WF_iteration(Pass)


(***************************************************************************)
(* Claims about the search loop, checked under Spec.                       *)
(***************************************************************************)
\* the number of nodes of the instance
NodeCount == Cardinality(DOMAIN problem_instance.location_demands)

\* C1: at the start and at the end of every iteration current_solution.route
\* is a permutation of [0, N): every node index of the instance occurs in it
\* exactly once, whatever swaps, rollbacks, steers and repairs ran before.
C1_CurrentIsPermutation ==
    IsPermutationOfNodes(current_solution.route, NodeCount)

\* an iteration has both steered towards the best and repaired the result,
\* on a route with depot markers and customers
C1_Witness ==
    /\ called = "run"
    /\ returned.steer
    /\ returned.repaired
    /\ NodeCount = MaxNodes
    /\ current_solution.route # saved_solutions[1].route

\* C2: best_so_far.fitness never increases from one iteration to the next,
\* and best_so_far changes only to a solution of strictly smaller fitness.
C2_BestMonotone ==
    [][/\ best_so_far'.fitness <= best_so_far.fitness
       /\ best_so_far' # best_so_far => best_so_far'.fitness < best_so_far.fitness]_vars

\* best_so_far has been replaced by both of the updates of an iteration
C2_Witness ==
    /\ called = "run"
    /\ \E k \in 1..Len(best_so_far_updates) :
           /\ k > 1
           /\ best_so_far_updates[k][2] < best_so_far_updates[k - 1][2]
    /\ best_so_far.fitness < saved_solutions[1].fitness
    /\ returned.second_update


\* C12: temperature(RUNS, iteration, f) = ((RUNS - iteration) / RUNS) * f, here
\* as the numerator over RUNS: it is 0 at iteration = RUNS, 1 at iteration 0
\* with f = 1, and the value every iteration of the loop uses, with the factor
\* the iteration starts with (1 or 2), lies in [0, 2].
C12_Temperature ==
    [][called' = "run" =>
          /\ temperature_factor \in {1, 2}
          /\ returned'.temperature_num = (RUNS - iteration') * temperature_factor
          /\ 0 <= returned'.temperature_num
          /\ returned'.temperature_num <= 2 * RUNS
          /\ temperature_num(RUNS, RUNS, temperature_factor) = 0
          /\ temperature_num(RUNS, 0, 1) = RUNS]_vars

\* an iteration ran with the factor 2 at a temperature above 1
C12_Witness ==
    /\ called = "run"
    /\ returned.temperature_num > RUNS
    /\ returned.temperature_num = 2 * (RUNS - iteration)


\* C13: has_ended becomes true at the end of the first iteration whose
\* stagnation counter reaches max_no_improvement; that iteration stores its
\* number in ended_early_iteration and best_so_far.fitness in
\* ended_early_value; afterwards has_ended stays true and the two stored
\* values never change.
C13_EndedEarlyLatched ==
    [][/\ (~has_ended /\ has_ended') =>
              /\ stagnation' = max_no_improvement
              /\ ended_early_iteration' = iteration'
              /\ ended_early_value' = best_so_far'.fitness
       /\ (~has_ended /\ stagnation' >= max_no_improvement) => has_ended'
       /\ ~has_ended => stagnation < max_no_improvement
       /\ has_ended =>
              /\ has_ended'
              /\ ended_early_iteration' = ended_early_iteration
              /\ ended_early_value' = ended_early_value]_vars

\* iterations ran after the early end and one of them improved best_so_far:
\* the stored values are still those of the ending iteration
C13_Witness ==
    /\ has_ended
    /\ called = "run"
    /\ iteration > ended_early_iteration
    /\ best_so_far_iteration > ended_early_iteration
    /\ best_so_far.fitness < ended_early_value


Sentinel == <<0, <<0, 0>>>>

\* C15: on an empty solution or a solution of one node the neighbourhood is
\* empty, choose_best_candidate returns the sentinel (0.0, (0, 0)), and an
\* iteration of the loop is a no-op: it completes without failure and leaves
\* current_solution.route, best_so_far and the tabu list unchanged.
C15_DegenerateIterationNoOp ==
    [][NodeCount <= 1 =>
          /\ find_neighbours(current_solution, problem_instance) = <<>>
          /\ choose_best_candidate(<<>>, tabu_list, best_so_far,
                                   aspiration_threshold, parent_swap) = Sentinel
          /\ called' = "run"
          /\ current_solution'.route = current_solution.route
          /\ best_so_far' = best_so_far
          /\ tabu_list' = tabu_list]_vars

\* the iteration on the empty solution ended in the out-of-bounds swap
C15_EmptyPanics ==
    /\ NodeCount = 0
    /\ called = IndexPanic
    /\ iteration = 0

\* the iteration on the one-node solution left the sentinel's move (0, 0) in
\* the tabu list
C15_SentinelBecomesTabu ==
    /\ NodeCount = 1
    /\ called = "run"
    /\ iteration = 1
    /\ tabu_list = <<(<<0, 0>>)>>


\* C18: in an iteration where the gate of the segment-reverse + triple-swap
\* fires, the mutation is applied to next_solution: the solution that becomes
\* current is a mutation of the next_solution the diversification left.  (Taken
\* on the iterations without repair, where current_solution is next_solution
\* as the gate found it.)
C18_MutationReachesNext ==
    [][(called' = "run" /\ returned'.mutated /\ ~returned'.repaired) =>
          LET n == Len(returned'.next_route)
          IN \E pair \in (IF n < 2 THEN {<<>>} ELSE SortedPairs(n)) :
             \E triple \in (IF n < 3 THEN {<<>>} ELSE SortedTriples(n)) :
                current_solution'.route =
                    final_mutation(returned'.next_route, pair, triple)]_vars

\* the gate fired on a route of three nodes or more and the solution that
\* became current is next_solution as the diversification left it
C18_MutationDiscarded ==
    /\ called = "run"
    /\ returned.mutated
    /\ ~returned.repaired
    /\ Len(current_solution.route) >= 3
    /\ current_solution.route = returned.next_route


\* the current streak of non-improving iterations has reached
\* max_no_improvement / 2
StreakAtHalf == stagnation >= max_no_improvement \div 2

\* the current streak began before has_ended was set: the loop has not ended
\* early, or it did so in an iteration of this streak
StreakBeganBeforeEnd ==
    ~has_ended \/ ended_early_iteration > iteration - stagnation

\* C19 as stated: temperature_factor is 1 or 2, and at the end of every
\* iteration it is 2 exactly when the streak has reached
\* max_no_improvement / 2, streaks that start after has_ended was set included.
C19_FactorTracksStreak ==
    /\ temperature_factor \in {1, 2}
    /\ called = "run" => (temperature_factor = 2 <=> StreakAtHalf)

\* C19: temperature_factor is 1 or 2, and at the end of every iteration it is
\* 2 exactly when the streak has reached max_no_improvement / 2 and began
\* before has_ended was set; in a streak that starts after has_ended was set
\* it stays 1.
C19_FactorTracksStreakBeforeEnd ==
    /\ temperature_factor \in {1, 2}
    /\ called = "run" =>
           (temperature_factor = 2 <=> (StreakAtHalf /\ StreakBeganBeforeEnd))

\* a streak that started after the early end reached max_no_improvement / 2
\* and the factor is 1
C19_Witness ==
    /\ called = "run"
    /\ has_ended
    /\ StreakAtHalf
    /\ ~StreakBeganBeforeEnd
    /\ temperature_factor = 1


\* the number of best-so-far updates of the iteration that led to this state
UpdatesOfIteration ==
    IF called = "run"
    THEN (IF returned.first_update THEN 1 ELSE 0)
             + (IF returned.second_update THEN 1 ELSE 0)
    ELSE 0

\* C20: every update of best_so_far appends exactly one entry (iteration, new
\* best fitness) to best_so_far_updates and nothing else appends to it; its
\* fitness values are strictly decreasing, its iterations non-decreasing, and
\* when it is non-empty its last entry is (best_so_far_iteration,
\* best_so_far.fitness); an iteration with a best-update ends with
\* stagnation = 0 and temperature_factor = 1.
C20_UpdateTrace ==
    /\ [](LET t == best_so_far_updates
          IN /\ \A j \in 1..(Len(t) - 1) :
                    /\ t[j + 1][2] < t[j][2]
                    /\ t[j][1] <= t[j + 1][1]
             /\ t # <<>> =>
                    t[Len(t)] = <<best_so_far_iteration, best_so_far.fitness>>)
    /\ [][LET t == best_so_far_updates
              k == Len(best_so_far_updates') - Len(t)
          IN /\ k = UpdatesOfIteration'
             /\ SubSeq(best_so_far_updates', 1, Len(t)) = t
             /\ \A j \in (Len(t) + 1)..Len(best_so_far_updates') :
                    best_so_far_updates'[j][1] = iteration'
             /\ k > 0 => /\ stagnation' = 0
                         /\ temperature_factor' = 1
                         /\ best_so_far'.fitness < best_so_far.fitness
             /\ k = 0 => best_so_far' = best_so_far]_vars

\* an iteration updated best_so_far twice, by its neighbour and again by the
\* repaired solution: two entries carry its number
C20_Witness ==
    /\ called = "run"
    /\ returned.first_update
    /\ returned.second_update
    /\ Len(best_so_far_updates) >= 2
    /\ best_so_far_updates[Len(best_so_far_updates)][1] = iteration
    /\ best_so_far_updates[Len(best_so_far_updates) - 1][1] = iteration
    /\ stagnation = 0
    /\ temperature_factor = 1

(***************************************************************************)
(* SpecRollback: perform_rollback applied to every fitness history within  *)
(* the bounds, for a candidate whose route equals or differs from best's.  *)
(***************************************************************************)
MaxHistory == 5         \* longest list of saved solutions explored
MaxFitness == 2         \* largest cached fitness of a saved solution

RollbackRoute == <<Location(0, 0, FALSE), Location(1, 1, FALSE)>>

Histories ==
    UNION {[1..k -> {Route(RollbackRoute, f) : f \in 0..MaxFitness}] : k \in 0..MaxHistory}

InitRollback ==
    \E history \in Histories, tenure \in 1..MaxTenure,
       next_route \in {RollbackRoute, SwapAt(RollbackRoute, 0, 1)} :
        /\ problem_instance = ProblemInstance(distance_matrix_of("abs", 2), <<MaxCapacity>>,
                                              demands_of(0, 2, 1), 1, PENALTY_VALUE)
        /\ current_solution = Route(next_route, 1)
        /\ best_so_far = Route(RollbackRoute, 0)
        /\ best_so_far_iteration = 0
        /\ saved_solutions = history
        /\ parent_swap = <<0, 1>>
        /\ stagnation = 0
        /\ max_stagnation = 0
        /\ temperature_factor = 1
        /\ ended_early_value = 0
        /\ has_ended = FALSE
        /\ ended_early_iteration = 0
        /\ len_tabu_list = tenure
        /\ tabu_list = <<>>
        /\ best_so_far_updates = <<>>
        /\ iteration = 0
        /\ called = "setup"
        /\ returned = Route(next_route, 1)

CallPerformRollback ==
    /\ called = "setup"
    /\ called' = "perform_rollback"
    /\ returned' = perform_rollback(saved_solutions, len_tabu_list,
                                    current_solution, best_so_far)
    /\ UNCHANGED <<problem_instance, search_vars>>

NextRollback == CallPerformRollback

SpecRollback == InitRollback /\ [][NextRollback]_vars

(***************************************************************************)
(* Claims about perform_rollback, checked under SpecRollback.              *)
(***************************************************************************)
\* the window of the last 4 x tenure saved solutions: its oldest and its
\* most recent cached fitness
WindowFull == Len(saved_solutions) >= 4 * len_tabu_list

OldestInWindow == saved_solutions[Len(saved_solutions) - 4 * len_tabu_list + 1].fitness

MostRecent == saved_solutions[Len(saved_solutions)].fitness

\* C21: perform_rollback replaces the solution with best only when the most
\* recent saved fitness of the window of the last 4 x tenure saved solutions
\* is greater than the oldest one (the history trends worse) and the route
\* differs from best's route; in every other case the solution is returned
\* unchanged.
C21_RollbackWhenWorsening ==
    called = "perform_rollback" =>
        /\ returned \in {current_solution, best_so_far}
        /\ returned # current_solution =>
              /\ WindowFull
              /\ MostRecent > OldestInWindow
              /\ current_solution.route # best_so_far.route

\* a call that replaced the solution with best although the most recent
\* saved fitness is lower than the oldest one of the window
C21_ReplacedWhileImproving ==
    /\ called = "perform_rollback"
    /\ returned = best_so_far
    /\ returned # current_solution
    /\ WindowFull
    /\ MostRecent < OldestInWindow

\* a call on a worsening history whose candidate differs from best and
\* which returned the candidate unchanged
C21_WorseningKept ==
    /\ called = "perform_rollback"
    /\ returned = current_solution
    /\ current_solution.route # best_so_far.route
    /\ Len(saved_solutions) >= 4 * len_tabu_list + 1
    /\ MostRecent > OldestInWindow

(***************************************************************************)
(* SpecSteer: steer_towards_best applied to every pair of a current route  *)
(* and a best route over the same nodes, for every draw of the positions.  *)
(***************************************************************************)
InitSteer ==
    \E n \in 0..MaxNodes :
        \E current_indices \in Shuffles(n), best_indices \in Starts(n) :
            LET pi == ProblemInstance(distance_matrix_of("abs", n), <<MaxCapacity>>,
                                      demands_of(1, n, 1), 1, PENALTY_VALUE)
            IN /\ problem_instance = pi
               /\ current_solution = setup(current_indices, pi)
               /\ best_so_far = setup(best_indices, pi)
               /\ best_so_far_iteration = 0
               /\ saved_solutions = <<>>
               /\ parent_swap = <<n, n>>
               /\ stagnation = 0
               /\ max_stagnation = 0
               /\ temperature_factor = 1
               /\ ended_early_value = 0
               /\ has_ended = FALSE
               /\ ended_early_iteration = 0
               /\ len_tabu_list = InitialTenure
               /\ tabu_list = <<>>
               /\ best_so_far_updates = <<>>
               /\ iteration = 0
               /\ called = "setup"
               /\ returned = setup(current_indices, pi)

CallSteerTowardsBest ==
    \E num_indices \in 0..MaxNodes :
        \E chosen_indices \in choose_multiple(Len(current_solution.route), num_indices) :
            LET steered == steer_towards_best(current_solution, best_so_far, chosen_indices)
            IN /\ called = "setup"
               /\ called' = "steer_towards_best"
               /\ returned' = [chosen_indices |-> chosen_indices,
                               route |-> steered.route,
                               panicked |-> steered.panicked]
               /\ UNCHANGED <<problem_instance, search_vars>>

NextSteer == CallSteerTowardsBest

SpecSteer == InitSteer /\ [][NextSteer]_vars

(***************************************************************************)
(* Claims about steer_towards_best, checked under SpecSteer.               *)
(***************************************************************************)
\* the positions at which a route agrees with best_so_far
Agreeing(route) == {p \in 1..Len(route) : route[p] = best_so_far.route[p]}

\* C22: for current and best that are permutations of the same nodes,
\* steer_towards_best never decreases the number of positions p with
\* current[p] = best[p]; after it returns every chosen position p has
\* current[p] = best[p], and current is still a permutation of the same nodes.
C22_SteerKeepsMatches ==
    called = "steer_towards_best" =>
        /\ ~returned.panicked
        /\ Cardinality(Agreeing(returned.route))
              >= Cardinality(Agreeing(current_solution.route))
        /\ \A k \in 1..Len(returned.chosen_indices) :
              At(returned.route, returned.chosen_indices[k])
                  = At(best_so_far.route, returned.chosen_indices[k])
        /\ IsPermutationOfNodes(returned.route, Len(current_solution.route))

\* a steer over two chosen positions, both of which disagreed with best, on
\* a route that already agreed with best somewhere else
C22_Witness ==
    /\ called = "steer_towards_best"
    /\ Len(returned.chosen_indices) = 2
    /\ \A k \in 1..2 :
          At(current_solution.route, returned.chosen_indices[k])
              # At(best_so_far.route, returned.chosen_indices[k])
    /\ Agreeing(current_solution.route) # {}
    /\ Cardinality(Agreeing(returned.route))
          > Cardinality(Agreeing(current_solution.route))

(***************************************************************************)
(* Further claims about the search loop, checked under Spec.               *)
(***************************************************************************)
\* C23: the tabu tenure len_tabu_list lies in
\* [tl_lower_bound_len, tl_upper_bound_len) in every reachable state, starting
\* from its initial value, and it changes only in iterations whose index is a
\* multiple of the tenure period.
C23_TenureInRange ==
    /\ [](/\ tl_lower_bound_len <= len_tabu_list
          /\ len_tabu_list < tl_upper_bound_len)
    /\ [][len_tabu_list' # len_tabu_list => iteration' % TenurePeriod = 0]_vars

\* an iteration has re-sampled the tenure to a value other than the initial one
C23_Witness ==
    /\ called = "run"
    /\ returned.resampled
    /\ iteration % TenurePeriod = 0
    /\ len_tabu_list # InitialTenure

\* C24: every node of the initial solution built by setup has is_warehouse =
\* TRUE if and only if its index < K - 1, the test by which the partitioner
\* and the penalty recognise depot markers, and every such node has demand 0.
C24_DepotRuleConsistent ==
    called = "setup" =>
        \A p \in 1..Len(returned.route) :
            LET loc == returned.route[p]
                is_marker == loc.index < problem_instance.num_of_trucks - 1
            IN /\ loc.is_warehouse <=> is_marker
               /\ is_marker => loc.demand = 0

\* setup has built a route that holds the node of index K - 1 flagged as a
\* warehouse, which the partitioner puts into a truck's sub-route as a customer
C24_FlaggedCustomer ==
    /\ called = "setup"
    /\ problem_instance.num_of_trucks = 2
    /\ \E p \in 1..Len(returned.route) :
          /\ returned.route[p].is_warehouse
          /\ returned.route[p].index = problem_instance.num_of_trucks - 1
          /\ LET trucks == partition_trucks_sorted_by_load(returned,
                                                           problem_instance.num_of_trucks)
             IN \E k \in 1..Len(trucks) :
                    \E q \in 1..Len(trucks[k].route) : trucks[k].route[q] = returned.route[p]

(***************************************************************************)
(* SpecPar: find_neighbours with its rayon workers made explicit.  The     *)
(* pairs are evaluated one by one in any order (pairs.par_iter().map(..)); *)
(* collect() gathers the candidates and par_sort_by sorts them once every  *)
(* pair has been evaluated.  While the workers run, returned holds the     *)
(* vector under collection: one Option per pair.                           *)
(***************************************************************************)
InitPar ==
    \E num_of_trucks \in 1..2, n \in 0..MaxNodes :
        \E indices \in Starts(n) :
            LET pi == ProblemInstance(distance_matrix_of("abs", n),
                                      [k \in 1..num_of_trucks |-> MaxCapacity],
                                      demands_of(1, n, num_of_trucks),
                                      num_of_trucks, PENALTY_VALUE)
            IN InitSearch(pi, setup(indices, pi))

\* the pairs whose candidate has been collected so far
Evaluated(collected) ==
    {collected[q][1][2] : q \in {q \in 1..Len(collected) : collected[q] # None}}

\* a collect that stores each candidate behind those that completed earlier
collect_on_completion(collected, k, candidate) ==
    LET free == CHOOSE q \in 1..Len(collected) :
                    /\ collected[q] = None
                    /\ \A r \in 1..(q - 1) : collected[r] # None
    IN [collected EXCEPT ![free] = Some(candidate)]

\* collect() of an indexed parallel iterator: the candidate of the k-th pair
\* is stored at place k, whenever its worker completes
collect(collected, k, candidate) == [collected EXCEPT ![k] = Some(candidate)]

\* lines 11-17: the pairs are built and handed to the workers
ParIter ==
    /\ called = "setup"
    /\ called' = "par_iter"
    /\ returned' = [k \in 1..Len(pairs_from(0, 1, Len(current_solution.route))) |-> None]
    /\ UNCHANGED <<problem_instance, search_vars>>

\* lines 18-37: some worker completes the evaluation of a pair not yet done
ParMap ==
    LET pairs == pairs_from(0, 1, Len(current_solution.route)) IN
    \E k \in 1..Len(pairs) :
        /\ called = "par_iter"
        /\ pairs[k] \notin Evaluated(returned)
        /\ called' = "par_iter"
        /\ returned' = collect(returned, k,
                               evaluate_pair(current_solution, problem_instance, pairs[k]))
        /\ UNCHANGED <<problem_instance, search_vars>>

\* lines 38-41: every worker has joined; the vector is sorted and returned
ParSortBy ==
    /\ called = "par_iter"
    /\ \A k \in 1..Len(returned) : returned[k] # None
    /\ called' = "find_neighbours"
    /\ returned' = par_sort_by_fitness([k \in 1..Len(returned) |-> returned[k][1]])
    /\ UNCHANGED <<problem_instance, search_vars>>

NextPar == ParIter \/ ParMap \/ ParSortBy

SpecPar == InitPar /\ [][NextPar]_vars

(***************************************************************************)
(* Claims about the parallel neighbourhood, checked under SpecPar.         *)
(***************************************************************************)
\* C25: the result of find_neighbours does not depend on the interleaving of
\* its parallel workers: for every order in which the pair evaluations
\* complete the returned list is the same, the list of the sequential
\* evaluation, and the input solution and the problem instance are unchanged.
C25_InterleavingIndependent ==
    /\ [](called = "find_neighbours" =>
              returned = find_neighbours(current_solution, problem_instance))
    /\ [][/\ current_solution' = current_solution
          /\ problem_instance' = problem_instance]_vars

\* find_neighbours has returned a list in which two candidates tie on fitness,
\* after its workers completed in some order
C25_Witness ==
    /\ called = "find_neighbours"
    /\ Len(returned) = Len(pairs_from(0, 1, MaxNodes))
    /\ \E a, b \in 1..Len(returned) : a # b /\ returned[a][1] = returned[b][1]

\* the iterations, among the first done, in which best_so_far was replaced
UpdateIterations(done) ==
    {it \in 1..done : \E j \in 1..Len(best_so_far_updates) : best_so_far_updates[j][1] = it}

\* the length of the longest run of consecutive iterations of 1..done without
\* a best-update, open or closed
LongestStreak(done) ==
    LET runs == {<<a, b>> \in (1..done) \X (1..done) :
                    a <= b /\ \A it \in a..b : it \notin UpdateIterations(done)}
    IN IF runs = {} THEN 0
       ELSE CHOOSE len \in 1..done :
                /\ \E r \in runs : r[2] - r[1] + 1 = len
                /\ \A r \in runs : r[2] - r[1] + 1 <= len

\* C26: when the run ends, max_stagnation equals the length of the longest run
\* of consecutive iterations without a best-update, including a streak that is
\* still open at the last iteration.
C26_MaxStagnationIsLongestStreak ==
    (called = "run" /\ iteration = RUNS) => max_stagnation = LongestStreak(RUNS)

\* a run has ended inside a streak that is longer than max_stagnation
C26_OpenStreakNotCounted ==
    /\ called = "run"
    /\ iteration = RUNS
    /\ NodeCount = MaxNodes
    /\ stagnation = LongestStreak(RUNS)
    /\ stagnation > max_stagnation

(***************************************************************************)
(* Further claims about the selector, checked under SpecTabu.              *)
(***************************************************************************)
\* C27: choose_best_candidate returns S[0] unchanged whenever its normalised
\* pair is not in the tabu list; it returns a move whose normalised pair is in
\* the tabu list only if the aspiration condition holds for S[0] or no element
\* of S is both non-tabu and non-overlapping with parent_swap; for non-empty S
\* the result is always an element of S.
C27_SelectorSafety ==
    called = "choose_best_candidate" =>
        LET S == find_neighbours(current_solution, problem_instance)
            chosen == returned.chosen_solution
        IN /\ S # <<>> => \E k \in 1..Len(S) : S[k] = chosen
           /\ (S # <<>> /\ ~StoredSorted(tabu_list, S[1][2])) => chosen = S[1]
           /\ StoredSorted(tabu_list, chosen[2]) =>
                 \/ Aspires(S[1], best_so_far.fitness, returned.aspiration_threshold,
                            parent_swap)
                 \/ \A k \in 1..Len(S) : ~Admissible(S[k], tabu_list, parent_swap)

\* the selector returned a tabu move without aspiration because every other
\* neighbour is tabu or overlaps the parent swap
C27_Witness ==
    /\ called = "choose_best_candidate"
    /\ LET S == find_neighbours(current_solution, problem_instance)
       IN /\ StoredSorted(tabu_list, returned.chosen_solution[2])
          /\ returned.chosen_solution = S[1]
          /\ ~Aspires(S[1], best_so_far.fitness, returned.aspiration_threshold, parent_swap)
          /\ \A k \in 1..Len(S) : ~Admissible(S[k], tabu_list, parent_swap)
          /\ \E k \in 1..Len(S) : ~StoredSorted(tabu_list, S[k][2])

(***************************************************************************)
(* Further claims about the search loop, checked under Spec.               *)
(***************************************************************************)
\* C28: the cached fitness is consistent with the route: for N >= 2, in every
\* reachable state best_so_far.fitness = find_fitness(best_so_far.route), and
\* at the start of every iteration current_solution.fitness =
\* find_fitness(current_solution.route), whichever of the candidate swap,
\* rollback, steer towards best and repair produced the solution.
C28_CachedFitnessConsistent ==
    NodeCount >= 2 =>
        /\ best_so_far.fitness = fitness_of(best_so_far, problem_instance)
        /\ current_solution.fitness = fitness_of(current_solution, problem_instance)

\* an iteration repaired its solution and the repaired solution became the
\* best so far, after an earlier iteration had steered towards the best
C28_Witness ==
    /\ called = "run"
    /\ NodeCount = MaxNodes
    /\ returned.repaired
    /\ returned.second_update
    /\ current_solution = best_so_far
    /\ current_solution.route # returned.next_route

\* the last iteration in which best_so_far was replaced, 0 if there is none
LastUpdateIteration ==
    IF UpdateIterations(iteration) = {} THEN 0
    ELSE CHOOSE it \in UpdateIterations(iteration) :
             \A other \in UpdateIterations(iteration) : other <= it

\* C29: at the end of every iteration stagnation is the number of consecutive
\* iterations without a best-update: stagnation = iteration -
\* best_so_far_iteration, where best_so_far_iteration is the last iteration in
\* which best_so_far was replaced (0 if never).
C29_StagnationIsStreak ==
    /\ best_so_far_iteration = LastUpdateIteration
    /\ stagnation = iteration - best_so_far_iteration
    /\ \A it \in (iteration - stagnation + 1)..iteration : it \notin UpdateIterations(iteration)

\* a streak that began after a best-update and outlasted the early end
C29_Witness ==
    /\ called = "run"
    /\ has_ended
    /\ best_so_far_iteration > 0
    /\ stagnation > 0
    /\ ended_early_iteration < iteration
    /\ ended_early_iteration > best_so_far_iteration

(***************************************************************************)
(* Further claims about the repair, checked under SpecRepair.              *)
(***************************************************************************)
\* the sum of the demands of a sub-route
RECURSIVE DemandSum(_)
DemandSum(route) ==
    IF route = <<>> THEN 0 ELSE Head(route).demand + DemandSum(Tail(route))

\* C30: the destroy phase of repair never pops from an empty sub-route, for
\* any solution with non-negative demands and K capacities; when the phase
\* ends every truck has excess <= 0 and each truck's load equals the sum of
\* the demands of the customers left in its sub-route.
C30_DestroyNeverPopsEmpty ==
    called # "setup" =>
        LET d == destroy_phase(current_solution, problem_instance) IN
        /\ called # PopPanic
        /\ ~d.panicked
        /\ \A k \in 1..Len(d.trucks) :
              /\ d.trucks[k].excess <= 0
              /\ d.trucks[k].load = DemandSum(d.trucks[k].route)

\* a repair whose destroy phase popped every customer of an overloaded truck
C30_Witness ==
    /\ called = "alns_destroy_and_recreate"
    /\ LET before == trucks_by_excess(current_solution, problem_instance)
           d == destroy_phase(current_solution, problem_instance)
       IN \E k \in 1..Len(d.trucks) :
              /\ before[k].excess > 0
              /\ Len(before[k].route) >= 2
              /\ d.trucks[k].route = <<>>
              /\ d.trucks[k].excess < 0

====
